---- MODULE Spec2Model ----
(***************************************************************************)
(* A model of app.py, the upload backend that keeps a users registry and   *)
(* the uploaded notes in a repository reached through a hosted contents    *)
(* API.  The state is the backing store (the registry file and the note    *)
(* files), the position and locals of every request being handled, and the *)
(* last response sent.  Every handler is cut at its calls to the backing   *)
(* store, so that requests interleave exactly where the code lets them.    *)
(*                                                                         *)
(* Strings are sequences of one-character strings, so that strip,          *)
(* replace, startswith and the path layout are computed, not assumed.      *)
(***************************************************************************)
EXTENDS Integers, Sequences, FiniteSets, TLC

VARIABLES
    registry,    \* the content of USERS_FILE_PATH in the backing store
    files,       \* the other files of the backing store: path -> content
    pc,          \* pc[p]: where the request handled by worker p stands
    loc,         \* loc[p]: the locals of that request
    resp,        \* the last response sent, with what the claims need of it
    clock,       \* time.time() in milliseconds
    nextToken,   \* the next value uuid.uuid4() yields (never repeats)
    regLog,      \* history: every register request that reached its save
    deleted      \* history: <user, path> deleted with success since the
                 \* user's last stored upload

vars == <<registry, files, pc, loc, resp, clock, nextToken, regLog, deleted>>

----------------------------------------------------------------------------
(* Bounds of the model *)

MaxClock == 0
MaxMints == 2
MaxFiles == 1

\* two workers: enough for every race between two requests
Procs == {1, 2}

----------------------------------------------------------------------------
(* Configuration, app.py lines 17-24 *)

NOTES_FOLDER == <<"n", "o", "t", "e", "s">>
MAX_FILE_SIZE == 90 * 1024 * 1024
MaxUserIdLen == 64

----------------------------------------------------------------------------
(* Strings *)

Whitespace == {" "}

RECURSIVE LStrip(_)
LStrip(s) ==
    IF s # <<>> /\ Head(s) \in Whitespace THEN LStrip(Tail(s)) ELSE s

RECURSIVE RStrip(_)
RStrip(s) ==
    IF s # <<>> /\ s[Len(s)] \in Whitespace
    THEN RStrip(SubSeq(s, 1, Len(s) - 1))
    ELSE s

\* str.strip()
Strip(s) == RStrip(LStrip(s))

\* str.replace(" ", "_")
ReplaceSpaces(s) == [i \in 1 .. Len(s) |-> IF s[i] = " " THEN "_" ELSE s[i]]

\* str.startswith
StartsWith(s, pre) ==
    Len(pre) <= Len(s) /\ SubSeq(s, 1, Len(pre)) = pre

AlNum == {"a", "b", "f", "g", "x", "0", "1", "2"}

\* safe_filename: keep alphanumerics and . _ -, everything else becomes _
safe_filename(name) ==
    [i \in 1 .. Len(name) |->
        IF name[i] \in AlNum \/ name[i] \in {".", "_", "-"}
        THEN name[i] ELSE "_"]

----------------------------------------------------------------------------
(* Requests the model sends *)

Long65 == [i \in 1 .. MaxUserIdLen + 1 |-> "a"]

\* userId values of register requests: plain, with a '/', with an inner
\* space, blank, and one character too long
RawUserIds ==
    { <<"a">>, <<"a", "/", "x">>, <<"a", " ", "b">>, <<" ">>, Long65 }

\* <userId> in a route is the default string converter: no '/', not empty
RouteUserIds ==
    {s \in RawUserIds \ {Long65} : \A i \in 1 .. Len(s) : s[i] # "/"}

\* userId values of upload and delete requests: the two that own a
\* namespace, and a blank form field or a missing JSON field
UploadUserIds == { <<"a">>, <<"a", "/", "x">>, <<" ">> }
DeleteUserIds == { <<"a">>, <<"a", "/", "x">>, <<>> }

Displays == { <<>> }

\* the file part of an upload: missing, or a name and a size in bytes
NoFilePart == [present |-> FALSE, filename |-> <<>>, size |-> 0]
FileParts ==
    {NoFilePart} \cup
    [present : {TRUE},
     filename : { <<"f", "/", "g">> },
     size : {0, MAX_FILE_SIZE + 1}]

\* tokens are the values uuid4 has yielded so far; 0 is a blank token and
\* nextToken one that was never issued
TokenInputs == 0 .. nextToken

----------------------------------------------------------------------------
(* The backing store, as the helpers of app.py reach it *)

EmptyUsers == <<>>

\* no file at the path: get_repo_file returns None, and its sha is None
NoSha == [exists |-> FALSE, parsable |-> FALSE, data |-> EmptyUsers]

\* the version token of a content is its hash: equal contents, equal tokens
ShaOf(content) == content

\* json.dumps(users_dict, indent=2): a content json.loads reads back
Dumps(users) == [exists |-> TRUE, parsable |-> TRUE, data |-> users]

\* get_repo_file(USERS_FILE_PATH): 200 with the content, or 404 -> None
get_repo_file_users == registry

\* load_users_registry: content that does not parse loads as no users,
\* with the sha of the content that is there
load_users_registry ==
    LET rec == get_repo_file_users
    IN  IF ~rec.exists
        THEN [sha |-> NoSha, data |-> EmptyUsers]
        ELSE IF rec.parsable
             THEN [sha |-> ShaOf(rec), data |-> rec.data]
             ELSE [sha |-> ShaOf(rec), data |-> EmptyUsers]

\* put_repo_file, "if sha: payload['sha'] = sha": None is not sent
PayloadHasSha(sha, none) == sha # none

\* the status of a PUT: 201 creates, 200 updates the version named by the
\* sha, 422 when the file exists and no sha is sent (or a sha is sent and
\* no file exists), 409 when the sha sent is not the current one
PutStatus(exists, sent, same) ==
    IF ~exists
    THEN IF ~sent THEN 201 ELSE 422
    ELSE IF ~sent THEN 422
         ELSE IF same THEN 200 ELSE 409

\* the store has written the file exactly when it answers 200 or 201, and
\* removed it exactly when it answers 200
Written(status) == status \in {200, 201}
Removed(status) == status = 200

\* put_repo_file returns on 200 and 201 and raises otherwise
PutOk(status) == status \in {200, 201}

\* a bug: the write names the version that is current when it is made,
\* not the one the users were loaded from
save_users_registry_sha_refetched(sha) == ShaOf(registry)

\* save_users_registry(users, sha): the sha handed on to put_repo_file
save_users_registry_sha(sha) == sha

\* a bug: the test for a taken userId left out
AlreadyTaken_unchecked(users, userId) == FALSE

\* line 123: "if userId in users"
AlreadyTaken(users, userId) == userId \in DOMAIN users

\* a note file of the store: its bytes (their number stands for them) and,
\* as history, the userId of the upload that stored it
FileSha(path) ==
    IF path \in DOMAIN files
    THEN [exists |-> TRUE, size |-> files[path].size]
    ELSE [exists |-> FALSE, size |-> 0]

\* the status of a DELETE with the sha fetched before: 200 when the file is
\* there with that sha, 404 when it is gone, 409 when it has changed
DeleteStatus(path, sha) ==
    IF path \notin DOMAIN files THEN 404
    ELSE IF FileSha(path) = sha THEN 200 ELSE 409

\* a bug: only 204 taken for success, the 200 of a delete raises
DeleteOk_only204(status) == status = 204

\* delete_repo_file returns on 200 and 204 and raises otherwise
DeleteOk(status) == status \in {200, 204}

Without(f, path) == [q \in DOMAIN f \ {path} |-> f[q]]
With(f, key, val) ==
    [q \in DOMAIN f \cup {key} |-> IF q = key THEN val ELSE f[q]]

----------------------------------------------------------------------------
(* Workers *)

NoLoc == [op |-> "none"]

Respond(p, r) ==
    /\ resp' = r
    /\ pc' = [pc EXCEPT ![p] = "idle"]
    /\ loc' = [loc EXCEPT ![p] = NoLoc]

Goto(p, label, locals) ==
    /\ pc' = [pc EXCEPT ![p] = label]
    /\ loc' = [loc EXCEPT ![p] = locals]
    /\ UNCHANGED resp

\* an exception no handler catches: the framework answers 500 with its own
\* page, not with a JSON body
Escaped(op) == [op |-> op, status |-> 500, kind |-> "escaped"]

\* jsonify({"error": ...}), status
Error(op, status) == [op |-> op, status |-> status, kind |-> "json"]

\* time.time() * 1000: it never runs backwards
Now == {t \in {clock, clock + 1} : t <= MaxClock}

\* userIds whose register request has returned success
Registered == {x.userId : x \in {y \in regLog : y.ok}}

Init ==
    /\ registry \in
           { NoSha,
             Dumps(EmptyUsers),
             [exists |-> TRUE, parsable |-> FALSE, data |-> EmptyUsers] }
    /\ files = <<>>
    /\ pc = [p \in Procs |-> "idle"]
    /\ loc = [p \in Procs |-> NoLoc]
    /\ resp = [op |-> "none", status |-> 200, kind |-> "json"]
    /\ clock = 0
    /\ nextToken = 1
    /\ regLog = {}
    /\ deleted = {}

----------------------------------------------------------------------------
(* GET /check/<userId> *)

check_user(p, rawId, fault) ==
    /\ pc[p] = "idle"
    /\ LET userId == Strip(rawId)
       IN  IF fault
           THEN Respond(p, Escaped("check"))
           ELSE Respond(p, [op |-> "check", status |-> 200, kind |-> "json",
                            raw |-> rawId,
                            available |->
                                ~(userId \in DOMAIN load_users_registry.data)])
    /\ UNCHANGED <<registry, files, clock, nextToken, regLog, deleted>>

----------------------------------------------------------------------------
(* POST /register *)

\* lines 112-124: validation, the registry read, the 409
register_load(p, rawId, display, fault) ==
    /\ pc[p] = "idle"
    /\ nextToken + Cardinality({q \in Procs : pc[q] = "register_save"})
           <= MaxMints
    /\ LET stripped == Strip(rawId)
           userId == ReplaceSpaces(stripped)
           late == userId \in Registered
       IN  IF stripped = <<>>
           THEN Respond(p, Error("register", 400) @@ [late |-> FALSE])
           ELSE IF Len(userId) > MaxUserIdLen
           THEN Respond(p, Error("register", 400) @@ [late |-> FALSE])
           ELSE IF fault
           THEN Respond(p, Escaped("register") @@ [late |-> late])
           ELSE LET reg == load_users_registry
                IN  IF AlreadyTaken(reg.data, userId)
                    THEN Respond(p, Error("register", 409) @@ [late |-> late])
                    ELSE Goto(p, "register_save",
                              [op |-> "register", raw |-> rawId,
                               userId |-> userId, display |-> Strip(display),
                               registry |-> reg, late |-> late])
    /\ UNCHANGED <<registry, files, clock, nextToken, regLog, deleted>>

\* lines 126-138: the token, the record, the conditional write
register_save(p, fault) ==
    /\ pc[p] = "register_save"
    /\ \E now \in Now :
        LET l == loc[p]
            token == nextToken
            rec == [token |-> token, display |-> l.display, createdAt |-> now]
            users == With(l.registry.data, l.userId, rec)
            sha == save_users_registry_sha(l.registry.sha)
            status == PutStatus(registry.exists, PayloadHasSha(sha, NoSha),
                                sha = ShaOf(registry))
            written == ~fault /\ Written(status)
            saved == ~fault /\ PutOk(status)
        IN  /\ clock' = now
            /\ nextToken' = nextToken + 1
            /\ regLog' = regLog \cup
                   {[raw |-> l.raw, userId |-> l.userId,
                     loaded |-> l.registry.sha, ok |-> saved, rec |-> rec]}
            /\ registry' = IF written THEN Dumps(users) ELSE registry
            /\ IF saved
               THEN Respond(p, [op |-> "register", status |-> 200,
                                kind |-> "json", late |-> l.late])
               ELSE Respond(p, Error("register", 500) @@ [late |-> l.late])
    /\ UNCHANGED <<files, deleted>>

----------------------------------------------------------------------------
(* POST /upload *)

\* does the registry hold this token for this userId (history: what the
\* registry says when the response is sent)
CredentialsMatch(userId, token) ==
    LET users == load_users_registry.data
    IN  userId \in DOMAIN users /\ users[userId].token = token

\* f"{NOTES_FOLDER}/{userId}/{timestamp}_{filename}"
RepoPath(userId, timestamp, filename) ==
    NOTES_FOLDER \o <<"/">> \o userId \o <<"/">>
        \o <<ToString(timestamp), "_">> \o filename

\* the 413 of line 171
TooLarge(size) == size > MAX_FILE_SIZE

\* a bug: the token is not compared
Authorized_anyToken(users, userId, token) == userId \in DOMAIN users

\* "if not entry or entry.get('token') != token", lines 161 and 217
Authorized(users, userId, token) ==
    userId \in DOMAIN users /\ users[userId].token = token

UploadResp(status, file, userId, token) ==
    [op |-> "upload", status |-> status, kind |-> "json",
     hasFile |-> file.present, size |-> file.size,
     blank |-> (userId = <<>> \/ token = 0),
     credsOk |-> CredentialsMatch(userId, token)]

\* lines 149-172: the file part, the fields, the registry read, the 403,
\* the path and the size limit
upload_load(p, file, rawId, token, fault) ==
    /\ pc[p] = "idle"
    /\ Cardinality(DOMAIN files)
           + Cardinality({q \in Procs : pc[q] = "upload_put"}) < MaxFiles
    /\ LET userId == Strip(rawId)
           R(status) == UploadResp(status, file, userId, token)
       IN  IF ~file.present
           THEN Respond(p, R(400)) /\ UNCHANGED clock
           ELSE IF userId = <<>> \/ token = 0
           THEN Respond(p, R(400)) /\ UNCHANGED clock
           ELSE IF fault
           THEN Respond(p, Escaped("upload")) /\ UNCHANGED clock
           ELSE IF ~Authorized(load_users_registry.data, userId, token)
           THEN Respond(p, R(403)) /\ UNCHANGED clock
           ELSE \E timestamp \in Now :
                LET filename ==
                        safe_filename(IF file.filename = <<>>
                                      THEN <<"f", "i", "l", "e">>
                                      ELSE file.filename)
                    repo_path == RepoPath(userId, timestamp, filename)
                IN  /\ clock' = timestamp
                    /\ IF TooLarge(file.size)
                       THEN Respond(p, R(413))
                       ELSE Goto(p, "upload_put",
                                 [op |-> "upload", userId |-> userId,
                                  token |-> token, file |-> file,
                                  path |-> repo_path])
    /\ UNCHANGED <<registry, files, nextToken, regLog, deleted>>

\* lines 174-180: the write of the file, without a sha
upload_put(p, fault) ==
    /\ pc[p] = "upload_put"
    /\ LET l == loc[p]
           status == PutStatus(l.path \in DOMAIN files, FALSE, FALSE)
       IN  /\ IF ~fault /\ Written(status)
              THEN /\ files' = With(files, l.path,
                                    [size |-> l.file.size, by |-> l.userId])
                   /\ deleted' = {d \in deleted : d.userId # l.userId}
              ELSE UNCHANGED <<files, deleted>>
           /\ IF ~fault /\ PutOk(status)
              THEN Respond(p, UploadResp(200, l.file, l.userId, l.token))
              ELSE Respond(p, UploadResp(500, l.file, l.userId, l.token))
    /\ UNCHANGED <<registry, clock, nextToken, regLog>>

----------------------------------------------------------------------------
(* GET /list/<userId> *)

RECURSIVE FirstSegment(_)
FirstSegment(s) ==
    IF s = <<>> \/ Head(s) = "/" THEN <<>>
    ELSE <<Head(s)>> \o FirstSegment(Tail(s))

\* the item the contents API lists for stored file f in directory pre: the
\* file itself when it lies directly in it, else the subdirectory on the way
DirItem(pre, f) ==
    LET rest == SubSeq(f, Len(pre) + 1, Len(f))
        seg == FirstSegment(rest)
    IN  IF seg = rest
        THEN [type |-> "file", name |-> rest, path |-> f]
        ELSE [type |-> "dir", name |-> seg, path |-> pre \o seg]

\* GET contents/<dir>: the items of the directory; none is a 404
DirItems(dir) ==
    LET pre == dir \o <<"/">>
    IN  {DirItem(pre, f) : f \in {g \in DOMAIN files : StartsWith(g, pre)}}

\* a bug: the items are passed on without the test of their type
ListedFiles_unfiltered(items) == items

\* lines 193-195: "if it.get('type') == 'file'"
ListedFiles(items) == {it \in items : it.type = "file"}

\* lines 184-187: the registry read and the 404 of an unknown userId
list_load(p, rawId, fault) ==
    /\ pc[p] = "idle"
    /\ LET userId == Strip(rawId)
       IN  IF fault
           THEN Respond(p, Escaped("list"))
           ELSE IF userId \notin DOMAIN load_users_registry.data
           THEN Respond(p, Error("list", 404))
           ELSE Goto(p, "list_get", [op |-> "list", userId |-> userId])
    /\ UNCHANGED <<registry, files, clock, nextToken, regLog, deleted>>

\* lines 188-200: the listing; a 404 of the store is an empty list
list_get(p, fault) ==
    /\ pc[p] = "list_get"
    /\ LET userId == loc[p].userId
           items == DirItems(NOTES_FOLDER \o <<"/">> \o userId)
       IN  IF fault
           THEN Respond(p, Error("list", 500))
           ELSE Respond(p, [op |-> "list", status |-> 200, kind |-> "json",
                            userId |-> userId,
                            files |-> ListedFiles(items),
                            deleted |->
                                {d.path : d \in
                                    {e \in deleted : e.userId = userId}}])
    /\ UNCHANGED <<registry, files, clock, nextToken, regLog, deleted>>

----------------------------------------------------------------------------
(* POST /delete *)

\* filePath values of the requests: every stored path, a path of a's
\* namespace that was never stored, and a missing field
MissingPath == NOTES_FOLDER \o <<"/", "a", "/", "0", "_", "x">>
DeletePaths == DOMAIN files \cup {MissingPath, <<>>}

\* line 220: filePath.startswith(f"{NOTES_FOLDER}/{userId}/")
InNamespace(filePath, userId) ==
    StartsWith(filePath, NOTES_FOLDER \o <<"/">> \o userId \o <<"/">>)

DeleteResp(status, userId, filePath) ==
    [op |-> "delete", status |-> status, kind |-> "json", userId |-> userId]

\* lines 208-221: the fields, the registry read, the two 403s
delete_load(p, filePath, userId, token, fault) ==
    /\ pc[p] = "idle"
    /\ IF filePath = <<>> \/ userId = <<>> \/ token = 0
       THEN Respond(p, DeleteResp(400, userId, filePath))
       ELSE IF fault
       THEN Respond(p, Escaped("delete"))
       ELSE IF ~Authorized(load_users_registry.data, userId, token)
       THEN Respond(p, DeleteResp(403, userId, filePath)
                       @@ [error |-> "credentials"])
       ELSE IF ~InNamespace(filePath, userId)
       THEN Respond(p, DeleteResp(403, userId, filePath)
                       @@ [error |-> "namespace"])
       ELSE Goto(p, "delete_get",
                 [op |-> "delete", userId |-> userId, path |-> filePath])
    /\ UNCHANGED <<registry, files, clock, nextToken, regLog, deleted>>

\* lines 223-226: the read of the file for its sha, the 404
delete_get(p, fault) ==
    /\ pc[p] = "delete_get"
    /\ LET l == loc[p]
       IN  IF fault
           THEN Respond(p, Escaped("delete"))
           ELSE IF l.path \notin DOMAIN files
           THEN Respond(p, DeleteResp(404, l.userId, l.path)
                           @@ [gone |-> TRUE])
           ELSE Goto(p, "delete_rm", l @@ [sha |-> FileSha(l.path)])
    /\ UNCHANGED <<registry, files, clock, nextToken, regLog, deleted>>

\* lines 227-232: the delete with that sha
delete_rm(p, fault) ==
    /\ pc[p] = "delete_rm"
    /\ LET l == loc[p]
           status == DeleteStatus(l.path, l.sha)
           gone == l.path \notin DOMAIN files
       IN  /\ IF ~fault /\ Removed(status)
              THEN files' = Without(files, l.path)
              ELSE UNCHANGED files
           /\ IF ~fault /\ DeleteOk(status)
              THEN /\ deleted' = deleted \cup
                          {[userId |-> l.userId, path |-> l.path]}
                   /\ Respond(p, DeleteResp(200, l.userId, l.path)
                                 @@ [owner |-> IF gone THEN l.userId
                                               ELSE files[l.path].by])
              ELSE /\ UNCHANGED deleted
                   /\ Respond(p, DeleteResp(500, l.userId, l.path)
                                 @@ [gone |-> gone])
    /\ UNCHANGED <<registry, clock, nextToken, regLog>>

----------------------------------------------------------------------------
(* The specifications *)

\* Faults says whether the backing store may answer a call with a status
\* the helpers raise on (a 5xx, a 403 of the rate limit)

\* one step of a request that reads or writes the registry only
RegistryStep(Faults) ==
    \E p \in Procs, fault \in Faults :
        \/ \E rawId \in RouteUserIds : check_user(p, rawId, fault)
        \/ \E rawId \in RawUserIds, display \in Displays :
               register_load(p, rawId, display, fault)
        \/ register_save(p, fault)

\* one step of a request about the note files
FileStep(Faults) ==
    \E p \in Procs, fault \in Faults :
        \/ \E file \in FileParts, rawId \in UploadUserIds,
              token \in TokenInputs :
               upload_load(p, file, rawId, token, fault)
        \/ upload_put(p, fault)
        \/ \E rawId \in RouteUserIds : list_load(p, rawId, fault)
        \/ list_get(p, fault)
        \/ \E filePath \in DeletePaths, userId \in DeleteUserIds,
              token \in TokenInputs :
               delete_load(p, filePath, userId, token, fault)
        \/ delete_get(p, fault)
        \/ delete_rm(p, fault)

\* the registry file is a file of a repository: a commit from elsewhere
\* can leave it with a content json.loads raises on (the case lines 78-79
\* are written for); the text of the records is still in the file
CorruptRegistry ==
    /\ registry.exists /\ registry.parsable
    /\ registry' = [registry EXCEPT !.parsable = FALSE]
    /\ UNCHANGED <<files, pc, loc, resp, clock, nextToken, regLog, deleted>>

\* every request, the backing store answering each call as its contract says
Next == RegistryStep({FALSE}) \/ FileStep({FALSE})

Spec == Init /\ [][Next]_vars

\* every request, the backing store failing calls at will
NextFaulty == RegistryStep({FALSE, TRUE}) \/ FileStep({FALSE, TRUE})

SpecFaulty == Init /\ [][NextFaulty]_vars

\* the requests on the registry alone
NextRegistry == RegistryStep({FALSE})

SpecRegistry == Init /\ [][NextRegistry]_vars

\* the requests on the registry, and its file edited from elsewhere
NextEnv == RegistryStep({FALSE}) \/ CorruptRegistry

SpecEnv == Init /\ [][NextEnv]_vars

----------------------------------------------------------------------------
(* The claims *)

\* the register requests that returned success
Succeeded == {x \in regLog : x.ok}

\* the registry file still holds the record a register request stored
RecordKept(x) ==
    /\ registry.exists
    /\ x.userId \in DOMAIN registry.data
    /\ registry.data[x.userId] = x.rec

\* C1: a delete request that carries userId B (and B's token) never removes
\* a file stored by an upload made under another userId A.
C1_NoDeleteAcrossUsers ==
    ~(resp.op = "delete" /\ resp.status = 200 /\ resp.owner # resp.userId)

\* C2: once a register request with a userId string has returned success,
\* a check request with the same string answers available: false.
C2_CheckAfterRegister ==
    (resp.op = "check" /\ resp.kind = "json"
        /\ resp.raw \in {x.raw : x \in Succeeded})
    => ~resp.available

\* C3: a register request that arrives after a register request for the
\* same userId has returned success is answered 409; no userId is ever
\* registered twice, and the record stored for it stays as it was stored.
C3_SecondRegisterConflicts ==
    /\ (resp.op = "register" /\ resp.late) => resp.status = 409
    /\ \A x, y \in Succeeded : x.userId = y.userId => x = y
    /\ \A x \in Succeeded : RecordKept(x)

\* C3's case: a later register request for a registered userId was answered
C3_Witness ==
    resp.op = "register" /\ resp.late /\ resp.status = 409

\* C4 as claimed: an upload whose credentials do not match the registry is
\* answered 403, whatever its file part is.
C4_BadCredentialsAlways403 ==
    (resp.op = "upload" /\ resp.kind = "json" /\ ~resp.credsOk)
    => resp.status = 403

\* C4 as amended: an upload whose credentials do not match the registry is
\* answered 400 when its file part is missing or its userId or token is
\* blank, and 403 otherwise, whatever the size of the file; and no upload
\* that is about to write a file carries credentials that do not match.
C4_BadCredentialsRejected ==
    /\ (resp.op = "upload" /\ resp.kind = "json" /\ ~resp.credsOk)
       => resp.status = (IF ~resp.hasFile \/ resp.blank THEN 400 ELSE 403)
    /\ \A p \in Procs :
          pc[p] = "upload_put"
          => CredentialsMatch(loc[p].userId, loc[p].token)

\* C4's case: a file over the size limit sent with a wrong token got 403
C4_Witness ==
    /\ resp.op = "upload" /\ resp.kind = "json" /\ ~resp.credsOk
    /\ resp.hasFile /\ ~resp.blank /\ TooLarge(resp.size)
    /\ resp.status = 403

\* C5: of the register requests that loaded the same version of the
\* registry (the same sha, or none) and went on to write, exactly one has
\* returned success once any has returned, and the registry holds the
\* record of every request that returned success.
C5_OneWriterPerVersion ==
    /\ \A x \in regLog :
          Cardinality({y \in Succeeded : y.loaded = x.loaded}) = 1
    /\ \A x \in Succeeded : RecordKept(x)

\* C5's case: two requests for different userIds both loaded no registry
\* file; one returned success and the other an error
C5_Witness ==
    \E x, y \in regLog :
        /\ x.loaded = NoSha /\ y.loaded = NoSha
        /\ x.userId # y.userId
        /\ x.ok /\ ~y.ok
        /\ resp.op = "register" /\ resp.status = 500

\* C6: the registry keeps the record of every register request that has
\* returned success, also when its file has a content that does not parse.
C6_RecordsNeverLost == \A x \in Succeeded : RecordKept(x)

\* C7: a list answer for u holds no path that a delete request of u has
\* removed since u's last stored upload, and holds only items of type file
\* that lie directly in <notesFolder>/<u>/.
C7_ListAfterDelete ==
    (resp.op = "list" /\ resp.status = 200)
    => \A it \in resp.files :
          /\ it.path \notin resp.deleted
          /\ it.type = "file"
          /\ it.path = NOTES_FOLDER \o <<"/">> \o resp.userId \o <<"/">>
                           \o it.name
          /\ \A i \in 1 .. Len(it.name) : it.name[i] # "/"

\* C7's case: a list answered after a delete of that user returned success
C7_Witness ==
    /\ resp.op = "list" /\ resp.status = 200
    /\ \E path \in resp.deleted : InNamespace(path, resp.userId)
    /\ resp.files = {}

\* C8: every failure of a handler is answered with a JSON error body; no
\* exception leaves the handler.
C8_FailuresAnsweredAsJson == resp.kind = "json"

\* C9: a delete request with valid credentials and a path of the caller's
\* namespace that finds the file gone is answered 404, also when the file
\* went between its read of the sha and its delete.
C9_DeleteOfMissingIs404 ==
    (resp.op = "delete" /\ resp.kind = "json"
        /\ resp.status \in {404, 500} /\ resp.gone)
    => resp.status = 404

\* C10, every step: the registry and the files change only in the last step
\* of a request, and that request is answered success.
C10_StoreStep ==
    (registry' # registry \/ files' # files)
    => \E p \in Procs :
          /\ pc[p] \in {"register_save", "upload_put", "delete_rm"}
          /\ pc'[p] = "idle"
          /\ resp'.kind = "json" /\ resp'.status = 200

\* C10, every state: the token of a register request whose write failed is
\* the token of no record, so no upload or delete is authorized by it.
C10_DiscardedTokens ==
    \A x \in regLog \ Succeeded :
        \A u \in DOMAIN load_users_registry.data :
            load_users_registry.data[u].token # x.rec.token

\* C10: a register, upload or delete request that is answered an error
\* leaves the registry and the files as they were, and the token minted by
\* a register request whose write was rejected is never accepted.
C10_ErrorsChangeNothing == []C10_DiscardedTokens /\ [][C10_StoreStep]_vars

\* C10's case: a register request whose write was rejected got its 500
C10_Witness ==
    /\ resp.op = "register" /\ resp.status = 500
    /\ regLog \ Succeeded # {}

====
